---- MODULE Spec2Model ----
(***************************************************************************)
(* A model of SpotifyDL.py: the Download Job (DownloadWorker.run), the     *)
(* Update Job (UpdateWorker.run), the control thread's handlers            *)
(* (SpotifyDownloaderApp) and the download history.                        *)
(*                                                                         *)
(* Strings the code takes apart (version strings) are sequences of         *)
(* one-character strings; output lines are sequences of words.             *)
(***************************************************************************)
EXTENDS Integers, Sequences, FiniteSets, TLC

VARIABLES
    \* ---- version comparison (UpdateWorker.run, lines 795-805)
    tag_name,          \* data.get('tag_name', '')
    current_version,   \* output.split()[-1]
    vpc,               \* "input" before the comparison, "update" / "skip" after
    \* ---- Update Job (UpdateWorker.run) and the file system it acts on
    updPc,             \* position of UpdateWorker.run
    liveBin,           \* content of <app dir>/spotdl.exe: "absent", "old", "new"
    tmpBin,            \* content of <app dir>/spotdl.exe.new: "absent", "partial", "new"
    binAtStart,        \* liveBin when the Update Job started
    arch,              \* platform.machine().lower()
    assets,            \* data.get('assets', []): records [name, url]
    download_url,      \* the chosen asset's url, NoUrl when none
    chunksRead,        \* chunks written to the temporary file
    finishedCount,     \* number of finished.emit() calls
    finishedPending,   \* finished emitted, on_finished not yet run
    windowOpen,        \* SpotifyDownloaderApp created and shown
    \* ---- Download Jobs and the control thread
    jobs,              \* sequence of DownloadWorker records, in start order
    cwd,               \* the process's current working directory
    queue,             \* signals emitted by workers, not yet handled (FIFO)
    progress_bar,      \* last value given to progress_bar.setValue
    slotError,         \* an exception was raised inside update_progress
    linesRead,         \* the output lines the jobs have consumed so far
    \* ---- history
    download_history,  \* self.download_history
    historyFile,       \* content of download_history.json
    histSteps          \* outcomes handled in SpecHistory

verVars  == <<tag_name, current_version, vpc>>
updLocals == <<arch, assets, download_url, chunksRead>>
updVars  == <<updPc, liveBin, tmpBin, binAtStart, updLocals,
              finishedCount, finishedPending, windowOpen>>
dlVars   == <<jobs, cwd, queue, progress_bar, slotError, linesRead>>
histVars == <<download_history, historyFile, histSteps>>
vars     == <<verVars, updVars, dlVars, histVars>>

(***************************************************************************)
(* Bounds                                                                  *)
(***************************************************************************)
MaxVerLen == 3      \* longest version string drawn in SpecVersion
MaxJobs   == 2      \* workers the user starts in SpecConcurrent
MaxLines  == 3      \* output lines read in Spec
ConcLines == 1      \* output lines read in SpecConcurrent
MaxAdds   == 3      \* outcomes handled in SpecHistory
MaxChunks == 2      \* chunks of the asset read by the Update Job

(***************************************************************************)
(* version_tuple and the update decision                                   *)
(***************************************************************************)
Digits == {"0", "1", "2", "3", "4", "5", "6", "7", "8", "9"}

DigitVal(c) ==
    CASE c = "0" -> 0 [] c = "1" -> 1 [] c = "2" -> 2 [] c = "3" -> 3
      [] c = "4" -> 4 [] c = "5" -> 5 [] c = "6" -> 6 [] c = "7" -> 7
      [] c = "8" -> 8 [] c = "9" -> 9

\* v.split('.'): the components between the dots; "" splits to [""].
RECURSIVE SplitDot(_)
SplitDot(s) ==
    IF \A i \in 1..Len(s) : s[i] # "."
    THEN <<s>>
    ELSE LET k == CHOOSE i \in 1..Len(s) :
                     s[i] = "." /\ \A j \in 1..(i - 1) : s[j] # "."
         IN  <<SubSeq(s, 1, k - 1)>> \o SplitDot(SubSeq(s, k + 1, Len(s)))

\* ''.join(ch for ch in p if ch.isdigit())
OnlyDigits(p) == SelectSeq(p, LAMBDA ch : ch \in Digits)

\* int(num) for a non-empty string of digits
RECURSIVE IntOf(_)
IntOf(num) ==
    IF num = <<>> THEN 0
    ELSE IntOf(SubSeq(num, 1, Len(num) - 1)) * 10 + DigitVal(num[Len(num)])

\* parts.append(int(num) if num else 0)
PartValue(p) == LET num == OnlyDigits(p) IN IF num # <<>> THEN IntOf(num) ELSE 0

version_tuple(v) == LET ps == SplitDot(v) IN [i \in 1..Len(ps) |-> PartValue(ps[i])]

\* Python's a > b on tuples of integers: the first differing position decides;
\* when one is a proper prefix of the other the longer one is the greater.
RECURSIVE TupleGreater(_, _)
TupleGreater(a, b) ==
    IF a = <<>> THEN FALSE
    ELSE IF b = <<>> THEN TRUE
    ELSE IF a[1] # b[1] THEN a[1] > b[1]
    ELSE TupleGreater(Tail(a), Tail(b))

\* str.lstrip('v'): every leading "v" is removed
RECURSIVE LStripV(_)
LStripV(s) == IF s # <<>> /\ s[1] = "v" THEN LStripV(Tail(s)) ELSE s

\* line 805 with latest_tag of line 795
UpdateWanted(tag, cur) ==
    LET latest_tag == LStripV(tag)
    IN  latest_tag # <<>> /\ TupleGreater(version_tuple(latest_tag), version_tuple(cur))

(***************************************************************************)
(* Values the unused parts of the state hold in a specification that does  *)
(* not run them.                                                           *)
(***************************************************************************)
NoProgress == -1
NoUrl == "None"
\* return_code before process.wait() has assigned it (line 124).
NoReturnCode == -1

VerIdle  == tag_name = <<>> /\ current_version = <<>> /\ vpc = "off"
UpdIdle  == /\ updPc = "off" /\ liveBin = "old" /\ tmpBin = "absent"
            /\ binAtStart = "old" /\ arch = <<>> /\ assets = <<>>
            /\ download_url = NoUrl /\ chunksRead = 0
            /\ finishedCount = 0 /\ finishedPending = FALSE /\ windowOpen = FALSE
\* The widgets as create_download_tab leaves them (lines 328, 352, 370-383).
InitialUi == [url |-> <<>>, location |-> "d1", format |-> "mp3",
              quality |-> "320k", auth |-> TRUE]

\* The directory the process is started in.
StartDir == "home"

DlIdle   == /\ jobs = <<>> /\ cwd = StartDir /\ queue = <<>>
            /\ progress_bar = NoProgress /\ slotError = FALSE /\ linesRead = <<>>
HistIdle == /\ download_history = <<>>
            /\ historyFile = [ok |-> FALSE, entries |-> <<>>]
            /\ histSteps = 0

(***************************************************************************)
(* SpecVersion: the update decision on every pair of bounded strings       *)
(***************************************************************************)
VerAlphabet == {"0", "1", "2", ".", "b"}

RECURSIVE StringsUpTo(_, _)
StringsUpTo(A, n) ==
    IF n = 0 THEN {<<>>}
    ELSE LET S == StringsUpTo(A, n - 1)
         IN  S \cup {Append(s, c) : s \in {t \in S : Len(t) = n - 1}, c \in A}

\* Version strings as spotdl publishes and prints them: they begin with a
\* digit.  The remote tag may carry one leading "v"; the local version is the
\* last token of the --version output.
VerStrings == {s \in StringsUpTo(VerAlphabet, MaxVerLen) :
                  Len(s) > 0 /\ s[1] \in {"0", "1", "2"}}
RemoteTags == VerStrings \cup {<<"v">> \o s : s \in VerStrings}
LocalVersions == VerStrings

InitVersion ==
    /\ tag_name \in RemoteTags
    /\ current_version \in LocalVersions
    /\ vpc = "input"
    /\ UpdIdle /\ DlIdle /\ HistIdle

Compare ==
    /\ vpc = "input"
    /\ vpc' = IF UpdateWanted(tag_name, current_version) THEN "update" ELSE "skip"
    /\ UNCHANGED <<tag_name, current_version, updVars, dlVars, histVars>>

NextVersion == Compare

SpecVersion == InitVersion /\ [][NextVersion]_vars

(***************************************************************************)
(* The Update Job: UpdateWorker.run, one action per step that can fail.    *)
(* The files are spotdl.exe (liveBin) and spotdl.exe.new (tmpBin) in the   *)
(* application directory.  The loading dialog's label and bar, which the   *)
(* update_status / update_progress / start_progress signals drive, are     *)
(* presentation only and are left out.                                     *)
(***************************************************************************)
Contains(s, t) == \E i \in 0..(Len(s) - Len(t)) : SubSeq(s, i + 1, i + Len(t)) = t
EndsWith(s, t) == Len(s) >= Len(t) /\ SubSeq(s, Len(s) - Len(t) + 1, Len(s)) = t

LowerChar(c) ==
    CASE c = "S" -> "s" [] c = "D" -> "d" [] c = "L" -> "l" [] c = "W" -> "w"
      [] c = "E" -> "e" [] c = "X" -> "x" [] OTHER -> c
Lower(s) == [i \in 1..Len(s) |-> LowerChar(s[i])]

\* lines 810-816
PreferredTokens(a) ==
    IF Contains(a, <<"a", "r", "m">>)
    THEN {<<"a", "r", "m", "6", "4">>, <<"a", "a", "r", "c", "h", "6", "4">>}
    ELSE IF Contains(a, <<"6", "4">>)
              \/ a \in {<<"a", "m", "d", "6", "4">>, <<"x", "8", "6", "_", "6", "4">>}
    THEN {<<"x", "6", "4">>, <<"a", "m", "d", "6", "4">>, <<"w", "i", "n", "6", "4">>}
    ELSE {<<"w", "i", "n", "3", "2">>, <<"x", "8", "6">>}

\* line 823
FirstPassMatch(name, tokens) ==
    /\ EndsWith(name, <<".", "e", "x", "e">>)
    /\ Contains(name, <<"s", "p", "o", "t", "d", "l">>)
    /\ Contains(name, <<"w", "i", "n">>)
    /\ \E t \in tokens : Contains(name, t)

\* line 828
LegacyName(latest_tag) ==
    <<"s", "p", "o", "t", "d", "l", "-">> \o latest_tag
        \o <<"-", "w", "i", "n", "3", "2", ".", "e", "x", "e">>

\* The two passes in the other order: the legacy name is looked for first.
SelectAsset_LegacyFirst(as, a, latest_tag) ==
    LET tokens == PreferredTokens(a)
        first  == {i \in 1..Len(as) : FirstPassMatch(Lower(as[i].name), tokens)}
        legacy == {i \in 1..Len(as) : as[i].name = LegacyName(latest_tag)}
        Min(S) == CHOOSE i \in S : \A j \in S : i <= j
    IN  IF legacy # {} THEN as[Min(legacy)].url
        ELSE IF first # {} THEN as[Min(first)].url
        ELSE NoUrl

\* lines 818-832: the first asset passing the first pass, else the first asset
\* with the legacy name, else none
SelectAsset(as, a, latest_tag) ==
    LET tokens == PreferredTokens(a)
        first  == {i \in 1..Len(as) : FirstPassMatch(Lower(as[i].name), tokens)}
        legacy == {i \in 1..Len(as) : as[i].name = LegacyName(latest_tag)}
        Min(S) == CHOOSE i \in S : \A j \in S : i <= j
    IN  IF first # {} THEN as[Min(first)].url
        ELSE IF legacy # {} THEN as[Min(legacy)].url
        ELSE NoUrl

\* ---- what the environment can answer
\* `spotdl --version` output, as whitespace-separated tokens
VersionOutputs ==
    { <<>>, <<<<"1">>>>, <<<<"1", ".", "0">>>>,
      <<<<"s", "p", "o", "t", "d", "l">>, <<"1", ".", "1">>>> }
FeedTags == { <<>>, <<"v", "1", ".", "0">>, <<"v", "1", ".", "1">> }
Win32Asset == [name |-> <<"s", "p", "o", "t", "d", "l", "-", "1", ".", "1", "-",
                          "w", "i", "n", "3", "2", ".", "e", "x", "e">>, url |-> "url32"]
Win64Asset == [name |-> <<"S", "p", "o", "t", "D", "L", "-", "1", ".", "1", "-",
                          "W", "i", "n", "6", "4", ".", "E", "X", "E">>, url |-> "url64"]
LinuxAsset == [name |-> <<"s", "p", "o", "t", "d", "l", "-", "1", ".", "1", "-",
                          "l", "i", "n", "u", "x">>, url |-> "urlLinux"]
FeedAssets == { <<>>, <<LinuxAsset>>, <<Win32Asset, Win64Asset>>, <<LinuxAsset, Win32Asset>> }
Machines == { <<"a", "m", "d", "6", "4">>, <<"x", "8", "6">>, <<"a", "r", "m", "6", "4">> }

InitUpdateJob ==
    /\ updPc = "start"
    /\ liveBin \in {"absent", "old"}
    /\ binAtStart = liveBin
    /\ tmpBin = "absent"
    /\ arch = <<>> /\ assets = <<>> /\ download_url = NoUrl /\ chunksRead = 0
    /\ finishedCount = 0 /\ finishedPending = FALSE /\ windowOpen = FALSE
    /\ VerIdle

\* An exception inside the try block: control goes to `except Exception: pass`.
Raise == updPc' = "except"

\* lines 774-780.  app_base_dir is not defined in the file: the call raises
\* NameError unless the name is bound from outside; both are modelled.
UpdCheckBinary ==
    /\ updPc = "start"
    /\ \/ /\ Raise
          /\ UNCHANGED <<finishedCount, finishedPending>>
       \/ /\ liveBin = "absent"
          /\ finishedCount' = finishedCount + 1
          /\ finishedPending' = TRUE
          /\ updPc' = "done"
       \/ /\ liveBin # "absent"
          /\ updPc' = "version"
          /\ UNCHANGED <<finishedCount, finishedPending>>
    /\ UNCHANGED <<liveBin, tmpBin, binAtStart, updLocals, windowOpen,
                   verVars, dlVars, histVars>>

\* lines 783-784: check_output raises, or output.split()[-1] (IndexError on
\* empty output)
UpdLocalVersion ==
    /\ updPc = "version"
    /\ \/ /\ Raise
          /\ UNCHANGED current_version
       \/ \E output \in VersionOutputs :
            IF output = <<>>
            THEN Raise /\ UNCHANGED current_version
            ELSE /\ current_version' = output[Len(output)]
                 /\ updPc' = "remote"
    /\ UNCHANGED <<tag_name, vpc, liveBin, tmpBin, binAtStart, updLocals,
                   finishedCount, finishedPending, windowOpen, dlVars, histVars>>

\* lines 787-795, 809, 818: the request fails, or the feed answers
UpdQueryRemote ==
    /\ updPc = "remote"
    /\ \/ /\ Raise
          /\ UNCHANGED <<tag_name, assets, arch>>
       \/ \E t \in FeedTags, as \in FeedAssets, m \in Machines :
            /\ tag_name' = t
            /\ assets' = as
            /\ arch' = m
            /\ updPc' = "compare"
    /\ UNCHANGED <<current_version, vpc, liveBin, tmpBin, binAtStart, download_url,
                   chunksRead, finishedCount, finishedPending, windowOpen,
                   dlVars, histVars>>

\* lines 805-834
UpdCompare ==
    /\ updPc = "compare"
    /\ IF UpdateWanted(tag_name, current_version)
       THEN /\ download_url' = SelectAsset(assets, arch, LStripV(tag_name))
            /\ updPc' = IF download_url' # NoUrl THEN "open" ELSE "emit"
       ELSE /\ updPc' = "emit"
            /\ UNCHANGED download_url
    /\ UNCHANGED <<verVars, liveBin, tmpBin, binAtStart, arch, assets, chunksRead,
                   finishedCount, finishedPending, windowOpen, dlVars, histVars>>

\* lines 835-842: urlopen or int(Content-Length) raises, or the temporary file
\* is opened for writing (created empty, or truncated)
UpdOpenAsset ==
    /\ updPc = "open"
    /\ \/ /\ Raise
          /\ UNCHANGED tmpBin
       \/ /\ tmpBin' = "partial"
          /\ updPc' = "chunks"
    /\ UNCHANGED <<verVars, liveBin, binAtStart, updLocals,
                   finishedCount, finishedPending, windowOpen, dlVars, histVars>>

\* lines 843-851: one response.read(block_size): a chunk, the end, or an error
UpdReadChunk ==
    /\ updPc = "chunks"
    /\ \/ /\ Raise
          /\ UNCHANGED <<tmpBin, chunksRead>>
       \/ /\ chunksRead < MaxChunks
          /\ chunksRead' = chunksRead + 1
          /\ UNCHANGED <<updPc, tmpBin>>
       \/ /\ chunksRead > 0
          /\ tmpBin' = "new"
          /\ updPc' = "replace"
          /\ UNCHANGED chunksRead
    /\ UNCHANGED <<verVars, liveBin, binAtStart, arch, assets, download_url,
                   finishedCount, finishedPending, windowOpen, dlVars, histVars>>

\* line 854: os.replace(temp_path, spotdl_path)
UpdReplace ==
    /\ updPc = "replace"
    /\ \/ /\ liveBin' = tmpBin
          /\ tmpBin' = "absent"
          /\ updPc' = "emit"
       \/ /\ updPc' = "fb_remove"
          /\ UNCHANGED <<liveBin, tmpBin>>
    /\ UNCHANGED <<verVars, binAtStart, updLocals,
                   finishedCount, finishedPending, windowOpen, dlVars, histVars>>

\* lines 857-861: os.remove(spotdl_path), a failure of which is passed over
UpdFallbackRemove ==
    /\ updPc = "fb_remove"
    /\ IF liveBin # "absent"
       THEN \/ liveBin' = "absent"
            \/ UNCHANGED liveBin
       ELSE UNCHANGED liveBin
    /\ updPc' = "fb_rename"
    /\ UNCHANGED <<verVars, tmpBin, binAtStart, updLocals,
                   finishedCount, finishedPending, windowOpen, dlVars, histVars>>

\* lines 862-863: os.rename(temp_path, spotdl_path); it raises, or moves the
\* file (over an existing destination where the platform allows it)
UpdFallbackRename ==
    /\ updPc = "fb_rename"
    /\ IF tmpBin # "absent"
       THEN \/ /\ liveBin' = tmpBin
               /\ tmpBin' = "absent"
               /\ updPc' = "emit"
            \/ /\ Raise
               /\ UNCHANGED <<liveBin, tmpBin>>
       ELSE /\ updPc' = "emit"
            /\ UNCHANGED <<liveBin, tmpBin>>
    /\ UNCHANGED <<verVars, binAtStart, updLocals,
                   finishedCount, finishedPending, windowOpen, dlVars, histVars>>

\* lines 864-868: `except Exception: pass`, then finished.emit(); run returns
\* and its locals are gone
UpdEmit ==
    /\ updPc \in {"except", "emit"}
    /\ finishedCount' = finishedCount + 1
    /\ finishedPending' = TRUE
    /\ updPc' = "done"
    /\ tag_name' = <<>> /\ current_version' = <<>>
    /\ arch' = <<>> /\ assets' = <<>> /\ download_url' = NoUrl /\ chunksRead' = 0
    /\ UNCHANGED <<vpc, liveBin, tmpBin, binAtStart, windowOpen, dlVars, histVars>>

UpdateJob ==
    \/ UpdCheckBinary \/ UpdLocalVersion \/ UpdQueryRemote \/ UpdCompare
    \/ UpdOpenAsset \/ UpdReadChunk \/ UpdReplace \/ UpdFallbackRemove
    \/ UpdFallbackRename \/ UpdEmit

(***************************************************************************)
(* The history: load_history, add_to_history, clear_history.               *)
(***************************************************************************)
HistoryLimit == 100

\* lines 635-643: the file's list, or [] when it is missing or unreadable
load_history(file) == IF file.ok THEN file.entries ELSE <<>>

\* The cut taken from the other end: on overflow the most recent of the old
\* entries is dropped and the oldest is kept.
add_to_history_DropsNewest(h, entry) ==
    LET h1 == <<entry>> \o h
    IN  IF Len(h1) > HistoryLimit
        THEN <<entry>> \o SubSeq(h1, 3, HistoryLimit + 1)
        ELSE h1

\* lines 658-661: insert(0, entry), then cut to the first 100
add_to_history(h, entry) ==
    LET h1 == <<entry>> \o h
    IN  IF Len(h1) > HistoryLimit THEN SubSeq(h1, 1, HistoryLimit) ELSE h1

(***************************************************************************)
(* The control thread: on_finished, start_download and the three slots.    *)
(***************************************************************************)
\* What the url, location, format, quality and authentication widgets can
\* hold when a handler reads them.  The user edits them between any two
\* handlers, so a handler's read is a choice among these.
Selections ==
    { InitialUi,
      [url |-> <<"u1">>, location |-> "d1", format |-> "mp3",
       quality |-> "320k", auth |-> TRUE],
      [url |-> <<"u2">>, location |-> "d2", format |-> "flac",
       quality |-> "128k", auth |-> FALSE] }

\* lines 882-885.  SpotifyDownloaderApp.__init__ loads the history (line 155);
\* it calls self._resolve_app_data_dir (line 149), which the file does not
\* define: the constructor raises unless the name is bound from outside, and
\* then no window exists.  Both are modelled.
on_finished ==
    /\ finishedPending
    /\ finishedPending' = FALSE
    /\ \/ /\ windowOpen' = TRUE
          /\ download_history' = load_history(historyFile)
       \/ /\ UNCHANGED <<windowOpen, download_history>>
    /\ UNCHANGED <<verVars, updPc, liveBin, tmpBin, binAtStart, updLocals,
                   finishedCount, dlVars, historyFile, histSteps>>

NewWorker(url, download_path, quality, format_type, use_auth) ==
    [url |-> url, download_path |-> download_path, quality |-> quality,
     format_type |-> format_type, use_auth |-> use_auth,
     pc |-> "start", original_dir |-> "unset",
     ffmpeg_path |-> "unset", spotdl_path |-> "unset",
     total_tracks |-> 1, current_track |-> 0, downloaded_tracks |-> <<>>,
     return_code |-> NoReturnCode, emitted |-> 0]

\* What the user does with the Download button: one download in the
\* session, or up to MaxJobs of them, each clicked at any moment.
SingleSession == jobs = <<>>
MultiSession  == Len(jobs) < MaxJobs

\* The start condition of a window that is shown from process start.
StartEnabled_BeforeWindow == TRUE

\* The download button exists once the window does (line 338).
StartEnabled == windowOpen

\* lines 556-585.  An empty url, or a directory that cannot be created, ends
\* the handler with a message box and nothing else.
start_download(clicks) ==
    /\ StartEnabled
    /\ \E ui \in Selections :
         \/ /\ ui.url = <<>>                   \* lines 558-560
            /\ UNCHANGED <<jobs, progress_bar>>
         \/ /\ ui.url # <<>>                   \* lines 563-568: makedirs raised
            /\ UNCHANGED <<jobs, progress_bar>>
         \/ /\ ui.url # <<>>                   \* lines 570-585
            /\ clicks
            /\ progress_bar' = 0
            /\ jobs' = Append(jobs, NewWorker(ui.url, ui.location, ui.quality,
                                              ui.format, ui.auth))
    /\ UNCHANGED <<verVars, updVars, cwd, queue, slotError, linesRead, histVars>>

\* lines 587-591
update_console ==
    /\ queue # <<>>
    /\ Head(queue).kind = "console"
    /\ queue' = Tail(queue)
    /\ UNCHANGED <<verVars, updVars, jobs, cwd, progress_bar, slotError,
                   linesRead, histVars>>

\* int((current / total) * 100); within the model's bounds the float result
\* equals the integer quotient.  total = 0 has no value: ZeroDivisionError.
Percent(current, total) == (current * 100) \div total

\* lines 593-596
update_progress ==
    /\ queue # <<>>
    /\ Head(queue).kind = "progress"
    /\ queue' = Tail(queue)
    /\ IF Head(queue).total = 0
       THEN slotError' = TRUE /\ UNCHANGED progress_bar
       ELSE /\ progress_bar' = Percent(Head(queue).current, Head(queue).total)
            /\ UNCHANGED slotError
    /\ UNCHANGED <<verVars, updVars, jobs, cwd, linesRead, histVars>>

\* The entry of a failed outcome written without its message.
HistoryEntry_NoError(ui, success, message, content, timestamp) ==
    IF success
    THEN [timestamp |-> timestamp, content |-> content, status |-> "Success",
          format |-> ui.format, quality |-> ui.quality, path |-> ui.location]
    ELSE [timestamp |-> IF timestamp # "" THEN timestamp ELSE "now",
          content |-> IF content # <<>> THEN content ELSE ui.url,
          status |-> "Failed",
          format |-> ui.format, quality |-> ui.quality]

\* lines 608-615 and 623-630
HistoryEntry(ui, success, message, content, timestamp) ==
    IF success
    THEN [timestamp |-> timestamp, content |-> content, status |-> "Success",
          format |-> ui.format, quality |-> ui.quality, path |-> ui.location]
    ELSE [timestamp |-> IF timestamp # "" THEN timestamp ELSE "now",
          content |-> IF content # <<>> THEN content ELSE ui.url,
          status |-> "Failed", error |-> message,
          format |-> ui.format, quality |-> ui.quality]

\* lines 602-633, with add_to_history's save_history (lines 645-655)
DownloadFinishedBody(success, message, content, timestamp) ==
    /\ \E ui \in Selections :
         download_history' =
             add_to_history(download_history,
                            HistoryEntry(ui, success, message, content, timestamp))
    /\ historyFile' = [ok |-> TRUE, entries |-> download_history']
    /\ progress_bar' = 100

download_finished ==
    /\ queue # <<>>
    /\ Head(queue).kind = "complete"
    /\ queue' = Tail(queue)
    /\ DownloadFinishedBody(Head(queue).success, Head(queue).message,
                            Head(queue).content, Head(queue).timestamp)
    /\ UNCHANGED <<verVars, updVars, jobs, cwd, slotError, linesRead, histSteps>>

\* lines 684-691, the user answering Yes
clear_history ==
    /\ windowOpen
    /\ download_history # <<>>
    /\ download_history' = <<>>
    /\ historyFile' = [ok |-> TRUE, entries |-> <<>>]
    /\ UNCHANGED <<verVars, updVars, dlVars, histSteps>>

(***************************************************************************)
(* The Download Job: DownloadWorker.run of worker j, one action per step   *)
(* between which another thread can run.  An output line is a sequence of  *)
(* words.                                                                  *)
(***************************************************************************)
Lines ==
    { <<"Downloading", "a">>, <<"Downloading", "b">>,
      <<"Downloading", "Found", "3", "tracks">>,
      <<"Found", "0", "tracks">>, <<"Found", "2", "tracks">>,
      <<"Error", "x">>, <<"debug">> }
ExitCodes == {0, 1}
\* A consumed line whose text is not kept.
SomeLine == <<>>

HasWord(line, w) == \E i \in 1..Len(line) : line[i] = w

NumeralValue(w) == CASE w = "0" -> 0 [] w = "1" -> 1 [] w = "2" -> 2 [] w = "3" -> 3
IsNumeral(w) == w \in {"0", "1", "2", "3"}

\* str(return_code)
Str(n) == CASE n = 0 -> "0" [] n = 1 -> "1" [] n = 2 -> "2" [] OTHER -> "n"

\* line 107
Relevant(line) ==
    \/ HasWord(line, "Downloading") \/ HasWord(line, "Found")
    \/ HasWord(line, "Downloaded") \/ HasWord(line, "Error")

\* re.search(r"Downloading (.+)", line): the text after the first "Downloading "
TitleMatches(line) ==
    {i \in 1..(Len(line) - 1) : line[i] = "Downloading"}
TrackTitle(line) ==
    LET i == CHOOSE k \in TitleMatches(line) : \A m \in TitleMatches(line) : k <= m
    IN  SubSeq(line, i + 1, Len(line))

\* re.search(r"Found (\d+) tracks", line)
FoundMatches(line) ==
    {i \in 1..(Len(line) - 2) :
        line[i] = "Found" /\ IsNumeral(line[i + 1]) /\ line[i + 2] = "tracks"}
FoundCount(line) ==
    LET i == CHOOSE k \in FoundMatches(line) : \A m \in FoundMatches(line) : k <= m
    IN  NumeralValue(line[i + 1])

\* ", ".join(downloaded_tracks)
RECURSIVE JoinTitles(_)
JoinTitles(ts) ==
    IF ts = <<>> THEN <<>>
    ELSE IF Len(ts) = 1 THEN ts[1]
    ELSE ts[1] \o <<", ">> \o JoinTitles(Tail(ts))

ConsoleEvent(j, line) == [kind |-> "console", job |-> j, text |-> line]
ProgressEvent(j, current, total) ==
    [kind |-> "progress", job |-> j, current |-> current, total |-> total]
CompleteEvent(j, success, message, content, timestamp) ==
    [kind |-> "complete", job |-> j, success |-> success, message |-> message,
     content |-> content, timestamp |-> timestamp]

\* download_complete.emit(...) by worker j: the signal is queued for the
\* control thread and counted
\* ... by a worker whose locals are those of rec
EmitCompleteFrom(j, rec, success, message, content, timestamp, pcAfter) ==
    /\ queue' = Append(queue, CompleteEvent(j, success, message, content, timestamp))
    /\ jobs' = [jobs EXCEPT ![j] = [rec EXCEPT !.emitted = @ + 1, !.pc = pcAfter]]

EmitComplete(j, success, message, content, timestamp, pcAfter) ==
    EmitCompleteFrom(j, jobs[j], success, message, content, timestamp, pcAfter)

JobIds == 1..Len(jobs)

\* lines 33-38: the empty-url outcome, or original_dir = os.getcwd()
RunStart(j) ==
    /\ jobs[j].pc = "start"
    /\ IF jobs[j].url = <<>>
       THEN EmitComplete(j, FALSE, <<"No URL provided">>, <<>>, "", "done")
       ELSE /\ jobs' = [jobs EXCEPT ![j].original_dir = cwd, ![j].pc = "chdir"]
            /\ UNCHANGED queue
    /\ UNCHANGED <<verVars, updVars, cwd, progress_bar, slotError, linesRead,
                   histVars>>

\* line 39: os.chdir(self.download_path); it raises when the path is not a
\* directory the process may enter, and nothing catches that
RunChdir(j) ==
    /\ jobs[j].pc = "chdir"
    /\ \/ /\ cwd' = jobs[j].download_path
          /\ jobs' = [jobs EXCEPT ![j].pc = "resolve"]
       \/ /\ jobs' = [jobs EXCEPT ![j].pc = "raised"]
          /\ UNCHANGED cwd
    /\ UNCHANGED <<verVars, updVars, queue, progress_bar, slotError, linesRead,
                   histVars>>

\* lines 41-75 raise (app_base_dir is not defined in the file and shutil is
\* not imported: NameError unless the names are bound from outside); the
\* statements are outside the try block, so run ends there
ResolveRaises(j) ==
    /\ jobs' = [jobs EXCEPT ![j].pc = "raised"]
    /\ UNCHANGED queue

\* lines 41-86: the two executables are looked for in the application
\* directory and on the search path
RunResolve(j) ==
    /\ jobs[j].pc = "resolve"
    /\ \/ ResolveRaises(j)
       \/ \E ffmpegFound \in BOOLEAN, spotdlOnPath \in BOOLEAN :
            LET spotdlFound == liveBin # "absent" \/ spotdlOnPath
                found == [jobs[j] EXCEPT
                            !.ffmpeg_path = IF ffmpegFound THEN "path" ELSE "None",
                            !.spotdl_path = IF spotdlFound THEN "path" ELSE "None"]
            IN  IF found.ffmpeg_path = "None"
                THEN EmitCompleteFrom(j, found, FALSE, <<"ffmpeg.exe not found">>,
                                      jobs[j].url, "", "finally")
                ELSE IF found.spotdl_path = "None"
                THEN EmitCompleteFrom(j, found, FALSE, <<"spotdl.exe not found">>,
                                      jobs[j].url, "", "finally")
                ELSE /\ jobs' = [jobs EXCEPT ![j] = [found EXCEPT !.pc = "spawn"]]
                     /\ UNCHANGED queue
    /\ UNCHANGED <<verVars, updVars, cwd, progress_bar, slotError, linesRead,
                   histVars>>

\* lines 89-102: Popen starts the downloader, or raises into line 134
RunSpawn(j) ==
    /\ jobs[j].pc = "spawn"
    /\ \/ /\ jobs' = [jobs EXCEPT ![j].pc = "read", ![j].total_tracks = 1,
                                  ![j].current_track = 0,
                                  ![j].downloaded_tracks = <<>>]
          /\ UNCHANGED queue
       \/ EmitComplete(j, FALSE, <<"OSError">>, jobs[j].url, "ts", "finally")
    /\ UNCHANGED <<verVars, updVars, cwd, progress_bar, slotError, linesRead,
                   histVars>>

\* lines 105-122 for one line of output
RunReadLine(j, maxLines, keepText) ==
    /\ jobs[j].pc = "read"
    /\ Len(linesRead) < maxLines
    /\ \E line \in Lines :
         LET console == IF Relevant(line) THEN <<ConsoleEvent(j, line)>> ELSE <<>>
             current == jobs[j].current_track + 1
         IN  /\ linesRead' = Append(linesRead, IF keepText THEN line ELSE SomeLine)
             /\ IF HasWord(line, "Downloading")
                THEN /\ queue' = queue \o console
                                   \o <<ProgressEvent(j, current, jobs[j].total_tracks)>>
                     /\ jobs' = [jobs EXCEPT
                           ![j].current_track = current,
                           ![j].downloaded_tracks =
                               IF TitleMatches(line) # {}
                               THEN Append(@, TrackTitle(line)) ELSE @]
                ELSE /\ queue' = queue \o console
                     /\ jobs' = [jobs EXCEPT
                           ![j].total_tracks =
                               IF HasWord(line, "Found") /\ FoundMatches(line) # {}
                               THEN FoundCount(line) ELSE @]
    /\ UNCHANGED <<verVars, updVars, cwd, progress_bar, slotError, histVars>>

\* lines 105, 134-136: reading the output raises
RunReadError(j) ==
    /\ jobs[j].pc = "read"
    /\ EmitComplete(j, FALSE, <<"UnicodeDecodeError">>, jobs[j].url, "ts", "finally")
    /\ UNCHANGED <<verVars, updVars, cwd, progress_bar, slotError, linesRead,
                   histVars>>

\* The outcome emitted with the output loop still running.
RunExit_StillReading(j) ==
    /\ jobs[j].pc = "read"
    /\ \E return_code \in ExitCodes :
         EmitComplete(j, return_code = 0, <<"Download completed successfully!">>,
                      jobs[j].url, "ts", "read")
    /\ UNCHANGED <<verVars, updVars, cwd, progress_bar, slotError, linesRead,
                   histVars>>

\* The outcome decided without looking at the exit code.
RunExit_AlwaysSuccess(j) ==
    /\ jobs[j].pc = "read"
    /\ \E return_code \in ExitCodes :
         EmitCompleteFrom(j, [jobs[j] EXCEPT !.return_code = return_code],
                  TRUE, <<"Download completed successfully!">>,
                  IF jobs[j].downloaded_tracks # <<>>
                  THEN JoinTitles(jobs[j].downloaded_tracks) ELSE jobs[j].url,
                  "ts", "finally")
    /\ UNCHANGED <<verVars, updVars, cwd, progress_bar, slotError, linesRead,
                   histVars>>

\* lines 124-133: the output ends and the process exits
RunExit(j) ==
    /\ jobs[j].pc = "read"
    /\ \E return_code \in ExitCodes :
         LET exited == [jobs[j] EXCEPT !.return_code = return_code]
         IN  IF return_code = 0
             THEN EmitCompleteFrom(j, exited, TRUE, <<"Download completed successfully!">>,
                      IF jobs[j].downloaded_tracks # <<>>
                      THEN JoinTitles(jobs[j].downloaded_tracks) ELSE jobs[j].url,
                      "ts", "finally")
             ELSE EmitCompleteFrom(j, exited, FALSE,
                      <<"Download failed with return code ", Str(return_code), ".">>,
                      jobs[j].url, "ts", "finally")
    /\ UNCHANGED <<verVars, updVars, cwd, progress_bar, slotError, linesRead,
                   histVars>>

\* lines 80, 85, 139: os.chdir(original_dir); run returns and its locals
\* are gone
RunFinally(j) ==
    /\ jobs[j].pc = "finally"
    /\ cwd' = jobs[j].original_dir
    /\ jobs' = [jobs EXCEPT ![j].pc = "done", ![j].original_dir = "unset",
                              ![j].ffmpeg_path = "unset", ![j].spotdl_path = "unset",
                              ![j].total_tracks = 1, ![j].current_track = 0,
                              ![j].downloaded_tracks = <<>>,
                              ![j].return_code = NoReturnCode]
    /\ UNCHANGED <<verVars, updVars, queue, progress_bar, slotError, linesRead,
                   histVars>>

(***************************************************************************)
(* Spec: the process from its start (lines 871-890): the loading dialog is *)
(* shown and the UpdateWorker started; no history file exists yet.  The    *)
(* user starts one download.                                               *)
(***************************************************************************)
Init == InitUpdateJob /\ DlIdle /\ HistIdle

Next ==
    \/ UpdateJob
    \/ on_finished
    \/ start_download(SingleSession)
    \/ update_console
    \/ update_progress
    \/ download_finished
    \/ clear_history
    \/ \E j \in JobIds : RunStart(j)
    \/ \E j \in JobIds : RunChdir(j)
    \/ \E j \in JobIds : RunResolve(j)
    \/ \E j \in JobIds : RunSpawn(j)
    \/ \E j \in JobIds : RunReadLine(j, MaxLines, FALSE)
    \/ \E j \in JobIds : RunReadError(j)
    \/ \E j \in JobIds : RunExit(j)
    \/ \E j \in JobIds : RunFinally(j)

Spec == Init /\ [][Next]_vars

(***************************************************************************)
(* SpecConcurrent: the process from the moment on_finished has opened the  *)
(* window (update done, no history file), with a user who clicks Download  *)
(* up to MaxJobs times, at any moment.                                     *)
(***************************************************************************)
InitConcurrent ==
    /\ VerIdle /\ DlIdle /\ HistIdle
    /\ updPc = "done" /\ liveBin \in {"absent", "old"} /\ tmpBin = "absent"
    /\ binAtStart = liveBin
    /\ arch = <<>> /\ assets = <<>> /\ download_url = NoUrl /\ chunksRead = 0
    /\ finishedCount = 1 /\ finishedPending = FALSE /\ windowOpen = TRUE

NextConcurrent ==
    \/ start_download(MultiSession)
    \/ update_console
    \/ update_progress
    \/ download_finished
    \/ clear_history
    \/ \E j \in JobIds : RunStart(j)
    \/ \E j \in JobIds : RunChdir(j)
    \/ \E j \in JobIds : RunResolve(j)
    \/ \E j \in JobIds : RunSpawn(j)
    \/ \E j \in JobIds : RunReadLine(j, ConcLines, FALSE)
    \/ \E j \in JobIds : RunReadError(j)
    \/ \E j \in JobIds : RunExit(j)
    \/ \E j \in JobIds : RunFinally(j)

SpecConcurrent == InitConcurrent /\ [][NextConcurrent]_vars

(***************************************************************************)
(* SpecHistory: the window opens on a history file of any length, and      *)
(* download_finished then handles outcomes as the signal delivers them.    *)
(***************************************************************************)
FileEntry(i) ==
    [timestamp |-> "old", content |-> <<"f">>, status |-> "Success",
     format |-> "mp3", quality |-> "320k", path |-> "d1", n |-> i]
FileWith(len) == [ok |-> TRUE, entries |-> [i \in 1..len |-> FileEntry(i)]]
HistoryFiles ==
    { [ok |-> FALSE, entries |-> <<>>] }
      \cup { FileWith(len) :
               len \in {0, HistoryLimit - 1, HistoryLimit, HistoryLimit + 1} }

Outcomes ==
    { [success |-> TRUE, message |-> <<"Download completed successfully!">>,
       content |-> <<"a">>, timestamp |-> "ts"],
      [success |-> FALSE, message |-> <<"Download failed with return code ", "1", ".">>,
       content |-> <<"u1">>, timestamp |-> "ts"],
      [success |-> FALSE, message |-> <<"ffmpeg.exe not found">>,
       content |-> <<"u1">>, timestamp |-> ""] }

\* The state in which finished has just been emitted (line 868).
InitHistory ==
    /\ VerIdle /\ DlIdle
    /\ updPc = "done" /\ liveBin = "old" /\ tmpBin = "absent" /\ binAtStart = "old"
    /\ arch = <<>> /\ assets = <<>> /\ download_url = NoUrl /\ chunksRead = 0
    /\ finishedCount = 1 /\ finishedPending = TRUE /\ windowOpen = FALSE
    /\ download_history = <<>>
    /\ historyFile \in HistoryFiles
    /\ histSteps = 0

\* download_finished (lines 602-633) run on an outcome
HandleOutcome ==
    /\ windowOpen
    /\ histSteps < MaxAdds
    /\ histSteps' = histSteps + 1
    /\ \E o \in Outcomes :
         DownloadFinishedBody(o.success, o.message, o.content, o.timestamp)
    /\ UNCHANGED <<verVars, updVars, jobs, cwd, queue, slotError, linesRead>>

NextHistory == on_finished \/ HandleOutcome \/ clear_history

SpecHistory == InitHistory /\ [][NextHistory]_vars

(***************************************************************************)
(* SpecOutput: one Download Job from the moment start_download has created *)
(* it (update done, window open), with the text of every output line it    *)
(* consumes kept in linesRead.  The window was opened on no history file   *)
(* or on one of two entries.                                               *)
(***************************************************************************)
InitOutput ==
    /\ VerIdle
    /\ historyFile \in {[ok |-> FALSE, entries |-> <<>>], FileWith(2)}
    /\ download_history = load_history(historyFile)
    /\ histSteps = 0
    /\ updPc = "done" /\ liveBin \in {"absent", "old"} /\ tmpBin = "absent"
    /\ binAtStart = liveBin
    /\ arch = <<>> /\ assets = <<>> /\ download_url = NoUrl /\ chunksRead = 0
    /\ finishedCount = 1 /\ finishedPending = FALSE /\ windowOpen = TRUE
    /\ jobs = <<NewWorker(<<"u1">>, "d1", "320k", "mp3", TRUE)>>
    /\ cwd = StartDir /\ queue = <<>>
    /\ progress_bar = 0 /\ slotError = FALSE /\ linesRead = <<>>

NextOutput ==
    \/ update_console
    \/ update_progress
    \/ download_finished
    \/ \E j \in JobIds : RunStart(j)
    \/ \E j \in JobIds : RunChdir(j)
    \/ \E j \in JobIds : RunResolve(j)
    \/ \E j \in JobIds : RunSpawn(j)
    \/ \E j \in JobIds : RunReadLine(j, MaxLines, TRUE)
    \/ \E j \in JobIds : RunReadError(j)
    \/ \E j \in JobIds : RunExit(j)
    \/ \E j \in JobIds : RunFinally(j)

SpecOutput == InitOutput /\ [][NextOutput]_vars

(***************************************************************************)
(* Claims                                                                  *)
(***************************************************************************)
Ended(j)   == jobs[j].pc \in {"done", "raised"}
Running(j) == ~Ended(j) /\ jobs[j].emitted = 0

\* C1: every Download Job that was started emits download_complete exactly
\* once: never twice, and a job that has ended has emitted it.
C1_ExactlyOneOutcome ==
    \A j \in JobIds :
        /\ jobs[j].emitted <= 1
        /\ Ended(j) => jobs[j].emitted = 1

\* C2: when the single Download Job has ended, on whatever path, the working
\* directory is the one the process had before the job.
C2_CwdRestored ==
    \A j \in JobIds : Ended(j) => cwd = StartDir

\* C3: no two Download Jobs are at once between their start and their
\* terminal outcome.
C3_AtMostOneRunning ==
    Cardinality({j \in JobIds : Running(j)}) <= 1

\* C4: a failure at any step of the Update Job leaves the live binary as it
\* was when the job started, and the job ends with the completion signal
\* emitted.
C4_FailureKeepsBinary ==
    /\ updPc = "except" => liveBin = binAtStart
    /\ updPc = "done" => finishedCount = 1

\* C5: the completion signal of the Update Job is emitted at most once, exactly
\* once when the job is done, and a Download Job exists only after the job is
\* done, its signal emitted and handled and the window created.
C5_UpdateBeforeDownload ==
    /\ finishedCount <= 1
    /\ updPc = "done" => finishedCount = 1
    /\ jobs # <<>> => updPc = "done" /\ finishedCount = 1 /\ windowOpen
    /\ windowOpen => updPc = "done" /\ ~finishedPending

\* C5 witness: a Download Job reads its downloader's output after an Update
\* Job that replaced the binary.
C5_Witness ==
    /\ liveBin = "new"
    /\ \E j \in JobIds : jobs[j].pc = "read"

\* C6: the history never holds more than 100 entries.
C6_HistoryCapped == Len(download_history) <= HistoryLimit

NewEntries ==
    { HistoryEntry(ui, o.success, o.message, o.content, o.timestamp) :
        ui \in Selections, o \in Outcomes }

\* C7: an outcome handled on a history of exactly 100 entries puts the new
\* entry first, keeps the 99 newest old entries behind it in their order, and
\* so drops exactly the oldest.
C7_OverflowDropsOldest ==
    [][ (histSteps' = histSteps + 1 /\ Len(download_history) = HistoryLimit)
          => /\ Len(download_history') = HistoryLimit
             /\ download_history'[1] \in NewEntries
             /\ \A i \in 1..(HistoryLimit - 1) :
                    download_history'[i + 1] = download_history[i] ]_vars

\* C7 witness: two outcomes were handled on top of file entries 1..98: the
\* second of them was added to a full history.
C7_Witness ==
    /\ Len(download_history) = HistoryLimit
    /\ histSteps = 2
    /\ "n" \notin DOMAIN download_history[1]
    /\ "n" \notin DOMAIN download_history[2]
    /\ "n" \in DOMAIN download_history[3] /\ download_history[3].n = 1
    /\ "n" \in DOMAIN download_history[HistoryLimit]
    /\ download_history[HistoryLimit].n = HistoryLimit - 2

ProgressPositions == {i \in 1..Len(queue) : queue[i].kind = "progress"}

\* C8: every percentage update_progress computes lies in 0..100, and of two
\* progress events of one job with the same total the later has no smaller
\* percentage.
C8_PercentInRange ==
    /\ progress_bar # NoProgress => progress_bar \in 0..100
    /\ \A i \in ProgressPositions, k \in ProgressPositions :
         (i < k /\ queue[i].job = queue[k].job /\ queue[i].total = queue[k].total
            /\ queue[i].total # 0)
           => Percent(queue[i].current, queue[i].total)
                <= Percent(queue[k].current, queue[k].total)

\* C9: no progress event makes update_progress divide by zero.
C9_NoDivisionByZero == slotError = FALSE

\* The rule as the specification states it: per component the digits before the first
\* non-digit, missing components 0.
RECURSIVE LeadingDigits(_)
LeadingDigits(p) ==
    IF p = <<>> \/ p[1] \notin Digits THEN <<>>
    ELSE <<p[1]>> \o LeadingDigits(Tail(p))
ClaimedTuple(v) ==
    LET ps == SplitDot(v) IN [i \in 1..Len(ps) |-> IntOf(LeadingDigits(ps[i]))]
ClaimedAt(t, i) == IF i <= Len(t) THEN t[i] ELSE 0
ClaimedGreater(a, b) ==
    \E i \in 1..(Len(a) + Len(b)) :
        /\ ClaimedAt(a, i) > ClaimedAt(b, i)
        /\ \A k \in 1..(i - 1) : ClaimedAt(a, k) = ClaimedAt(b, k)

\* C10: the update proceeds only if the remote tag, read as a tuple of
\* integers with suffixes stripped and missing components 0, is strictly
\* greater than the local version read the same way.
C10_UpdateOnlyIfNewer ==
    vpc = "update"
      => ClaimedGreater(ClaimedTuple(LStripV(tag_name)), ClaimedTuple(current_version))

\* The feed's asset i passes the first-pass test / carries the legacy name.
FirstPassAt(i) == FirstPassMatch(Lower(assets[i].name), PreferredTokens(arch))
LegacyAt(i) == assets[i].name = LegacyName(LStripV(tag_name))
ChosenByRule(url) ==
    \E i \in 1..Len(assets) :
        /\ assets[i].url = url
        /\ \/ FirstPassAt(i) /\ \A k \in 1..(i - 1) : ~FirstPassAt(k)
           \/ /\ \A k \in 1..Len(assets) : ~FirstPassAt(k)
              /\ LegacyAt(i)
              /\ \A k \in 1..(i - 1) : ~LegacyAt(k)

\* C11: the asset downloaded is the first in feed order that passes the
\* first-pass test, or, when none passes it, the first with the legacy name;
\* a download is under way only with such an asset, and when neither pass
\* matches nothing is downloaded and the binary is as it was.
C11_AssetSelection ==
    /\ download_url # NoUrl => ChosenByRule(download_url)
    /\ updPc \in {"open", "chunks", "replace", "fb_remove", "fb_rename"}
         => download_url # NoUrl
    /\ (updPc = "emit" /\ download_url = NoUrl)
         => /\ liveBin = binAtStart /\ tmpBin = "absent" /\ chunksRead = 0
            /\ UpdateWanted(tag_name, current_version)
                 => \A i \in 1..Len(assets) : ~FirstPassAt(i) /\ ~LegacyAt(i)

\* C11 witness: the feed lists the win32 asset before the win64 one, the host
\* is amd64, and the win64 asset is being fetched.
C11_Witness ==
    /\ updPc = "open"
    /\ arch = <<"a", "m", "d", "6", "4">>
    /\ assets = <<Win32Asset, Win64Asset>>
    /\ download_url = "url64"

\* C12: the step that ends the fallback (the rename after the tolerated
\* remove) leaves the downloaded content at the live binary path and no file
\* at the temporary path.
C12_FallbackInstalls ==
    [][ updPc = "fb_rename" => (liveBin' = "new" /\ tmpBin' = "absent") ]_vars

\* The events a step puts on the queue, and the line a step consumes.
Appended ==
    IF Len(queue') > Len(queue)
    THEN SubSeq(queue', Len(queue) + 1, Len(queue')) ELSE <<>>
LineConsumed == Len(linesRead') = Len(linesRead) + 1
LastLine == linesRead'[Len(linesRead')]

\* C13: every step delivers from the head of the queue or emits at its tail;
\* a console-line or progress event is emitted by the step that consumes the
\* line causing it; a completion event is the last event of its step; and a
\* job that has emitted its completion event emits nothing more.
C13_EventOrder ==
    [][ /\ \/ queue' = queue
           \/ queue # <<>> /\ queue' = Tail(queue)
           \/ Len(queue') > Len(queue) /\ SubSeq(queue', 1, Len(queue)) = queue
        /\ \A i \in 1..Len(Appended) :
              /\ jobs[Appended[i].job].emitted = 0
              /\ Appended[i].kind = "console"
                   => LineConsumed /\ Appended[i].text = LastLine
              /\ Appended[i].kind = "progress"
                   => LineConsumed /\ HasWord(LastLine, "Downloading")
              /\ Appended[i].kind = "complete" => i = Len(Appended) ]_vars

\* C13 witness: the events of two output lines and the completion event are
\* queued, in that order.
C13_Witness ==
    /\ Len(queue) = 4
    /\ queue[1] = ConsoleEvent(1, <<"Found", "2", "tracks">>)
    /\ queue[2] = ConsoleEvent(1, <<"Downloading", "a">>)
    /\ queue[3] = ProgressEvent(1, 1, 2)
    /\ queue[4].kind = "complete"

DownloadingCount(ls) ==
    Cardinality({i \in 1..Len(ls) : HasWord(ls[i], "Downloading")})
ProgressOf(evs) == SelectSeq(evs, LAMBDA e : e.kind = "progress")

\* The total the specification gives: N of the latest line containing
\* "Found N tracks", 1 when there is none.
FoundLines(ls) == {i \in 1..Len(ls) : FoundMatches(ls[i]) # {}}
TotalAfter(ls) ==
    IF FoundLines(ls) = {} THEN 1
    ELSE LET i == CHOOSE k \in FoundLines(ls) : \A m \in FoundLines(ls) : m <= k
         IN  FoundCount(ls[i])

\* C14: the step consuming the k-th line that contains "Downloading" emits
\* exactly one progress event, with current = k and total = N of the latest
\* earlier line containing "Found N tracks", or 1 when there is none.
C14_ProgressEvents ==
    [][ (LineConsumed /\ HasWord(LastLine, "Downloading"))
          => \E e \in {[kind |-> "progress", job |-> j,
                         current |-> DownloadingCount(linesRead'),
                         total |-> TotalAfter(linesRead)] : j \in JobIds} :
                ProgressOf(Appended) = <<e>> ]_vars

\* The titles of the lines "Downloading <title>", in output order.
RECURSIVE TitlesOf(_)
TitlesOf(ls) ==
    IF ls = <<>> THEN <<>>
    ELSE (IF TitleMatches(ls[1]) # {} THEN <<TrackTitle(ls[1])>> ELSE <<>>)
            \o TitlesOf(Tail(ls))
ExitStep(j) ==
    jobs[j].return_code = NoReturnCode /\ jobs'[j].return_code # NoReturnCode

\* C15: the step in which the downloader's exit code is taken emits one
\* completion event, a success exactly if the code is 0; on 0 its content is
\* the comma-joined titles of the output, or the url when there is none; on
\* another code its message holds the code and its content is the url.
C15_ExitCodeDecides ==
    [][ \A j \in JobIds :
          ExitStep(j) =>
            LET e  == queue'[Len(queue')]
                rc == jobs'[j].return_code
                ts == TitlesOf(linesRead)
            IN  /\ Appended = <<e>>
                /\ e.kind = "complete" /\ e.job = j
                /\ e.success <=> (rc = 0)
                /\ rc = 0 => e.content = IF ts = <<>> THEN jobs[j].url
                                         ELSE JoinTitles(ts)
                /\ rc # 0 => /\ HasWord(e.message, Str(rc))
                             /\ e.content = jobs[j].url ]_vars

\* C15 witness: a downloader that printed an Error line and two titles and
\* exited with code 0 has its success outcome queued.
C15_Witness ==
    /\ linesRead = << <<"Error", "x">>, <<"Downloading", "a">>, <<"Downloading", "b">> >>
    /\ queue # <<>>
    /\ queue[Len(queue)].kind = "complete"
    /\ queue[Len(queue)].success
    /\ queue[Len(queue)].content = <<"a", ", ", "b">>

NotFound(j) == jobs[j].ffmpeg_path = "None" \/ jobs[j].spotdl_path = "None"
BothFound(w) == w.ffmpeg_path = "path" /\ w.spotdl_path = "path"
EventsOf(evs, j) == SelectSeq(evs, LAMBDA e : e.job = j)

\* C16: a job whose search for the executables ends without both of them
\* emits one failed completion event in that step; it is then past its
\* outcome with no subprocess and no line read, and its one further step ends
\* it without an exception and emits nothing.
C16_NotFoundIsOutcome ==
    [][ \A j \in JobIds :
          /\ (jobs[j].pc = "resolve" /\ jobs'[j].pc # "resolve" /\ ~BothFound(jobs'[j]))
               => /\ Len(Appended) = 1
                  /\ Appended[1].kind = "complete" /\ Appended[1].job = j
                  /\ ~Appended[1].success
                  /\ jobs'[j].pc = "finally"
          /\ NotFound(j)
               => /\ jobs[j].pc = "finally" /\ jobs[j].emitted = 1
                  /\ linesRead = <<>>
                  /\ jobs'[j] = jobs[j] \/ jobs'[j].pc = "done"
                  /\ EventsOf(Appended, j) = <<>> ]_vars

\* A step of download_finished: the completion event at the head of the
\* queue is delivered.
FinishedStep == queue # <<>> /\ Head(queue).kind = "complete" /\ queue' = Tail(queue)

\* C17: download_finished puts exactly one entry in front of the history
\* (below the cap, the old entries follow unchanged); for a failed outcome
\* it has status Failed and the outcome's message as its error field, for a
\* successful one status Success and no error field.
C17_OutcomeRecorded ==
    [][ FinishedStep =>
          LET o == Head(queue)
              e == download_history'[1]
          IN  /\ download_history' # <<>>
              /\ Len(download_history) < HistoryLimit
                   => Tail(download_history') = download_history
              /\ o.success => e.status = "Success" /\ "error" \notin DOMAIN e
              /\ ~o.success => /\ e.status = "Failed"
                               /\ "error" \in DOMAIN e
                               /\ e.error = o.message ]_vars

\* C17 witness: the failure of a downloader that exited with code 1 is
\* recorded in front of the two entries loaded from the file.
C17_Witness ==
    /\ Len(download_history) = 3
    /\ download_history[1].status = "Failed"
    /\ download_history[1].error = <<"Download failed with return code ", "1", ".">>
    /\ download_history[2] = FileEntry(1)
    /\ download_history[3] = FileEntry(2)

\* C18: once two or more Download Jobs have all run to their end, each having
\* saved, changed and restored the working directory, the working directory
\* is the one the process had before the first of them.
C18_CwdAfterConcurrentJobs ==
    (Len(jobs) >= 2 /\ \A j \in JobIds : jobs[j].pc = "done") => cwd = StartDir

\* C19: the entry download_finished records for a job carries the format,
\* quality and output path that job was created with, whether it succeeded
\* or failed.
C19_EntryCarriesRequest ==
    [][ FinishedStep =>
          LET w == jobs[Head(queue).job]
              e == download_history'[1]
          IN  /\ e.format = w.format_type
              /\ e.quality = w.quality
              /\ "path" \in DOMAIN e
              /\ e.path = w.download_path ]_vars

====
